---- MODULE Spec2Model ----
(***************************************************************************)
(* A model of scripts/generate_personalens_icons.py: the RGBA canvas, the  *)
(* source-over compositor, the gradient fill, the four shape rasterizers   *)
(* and the PNG container encoder.                                          *)
(*                                                                         *)
(* Numbers.  The program computes in IEEE doubles; the model computes      *)
(* exactly, in integers.  Geometry (centres, radii, feathers, widths) is   *)
(* held in quarter pixels: a length of 1.0 is 4, the centre of pixel x is  *)
(* 4*x + 2.  Every geometric input of the model is a multiple of 1/4 and   *)
(* every divisor the rasterizers use on it (2*feather, feather,            *)
(* max(1, thickness)) is a power of two, so the doubles of the program     *)
(* carry the same values as the integers here except for math.hypot of a   *)
(* non-square, which the model never evaluates: it compares squares.       *)
(* A pixel is <<r, g, b, a>>; the buffer maps the pixel number y*w + x to   *)
(* its pixel, so byte 4*(y*w + x) + k of the bytearray is px[y*w + x][k+1].*)
(***************************************************************************)
EXTENDS Integers, Sequences, FiniteSets, TLC

VARIABLES
    w,        \* width of the canvas
    h,        \* height of the canvas
    px,       \* the pixel buffer
    pre,      \* the pixel buffer as it was before the last call
    call,     \* the last call: its name and its arguments
    blends,   \* the blend calls the last call made: [x, y, sa, a_pos]
    writes,   \* the byte indices of the buffer the last call wrote
    zero,     \* whether the last call took blend's out_a <= 0 branch
    err,      \* the exception the last call raised, or "none"
    out,      \* the bytes the last call returned or wrote to the file
    ncalls,   \* calls made since the canvas was created
    bg,       \* the background the canvas was created with
    shapes    \* whether every call since creation was a shape rasterizer

vars == <<w, h, px, pre, call, blends, writes, zero, err, out, ncalls, bg, shapes>>

(***************************************************************************)
(* Arithmetic helpers.                                                     *)
(***************************************************************************)
Max2(a, b) == IF a >= b THEN a ELSE b

Min2(a, b) == IF a <= b THEN a ELSE b

Abs(a) == IF a >= 0 THEN a ELSE -a

\* Python's int() of the quotient n / d (d > 0): truncation toward zero.
py_int(n, d) == IF n >= 0 THEN n \div d ELSE -((-n) \div d)

\* Python's round() of the quotient n / d (n >= 0, d > 0), the quotient being
\* a double the program computed: the nearest integer.  When the exact
\* quotient lies halfway between two integers the double lies on either side
\* of it (or on it, and round() goes to the even one), so the result is
\* q + tie for a tie of 0 or 1 that the caller does not control.
py_round(n, d, tie) ==
    LET q == n \div d
        r == n % d
    IN  IF 2 * r < d THEN q
        ELSE IF 2 * r > d THEN q + 1
        ELSE q + tie

\* Whether v may be stored in a bytearray.
is_byte(v) == v >= 0 /\ v <= 255

(***************************************************************************)
(* make_canvas(w, h, bg): bytearray(w*h*4) raises ValueError on a negative *)
(* count; otherwise every pixel of the (possibly empty) buffer is bg.      *)
(***************************************************************************)
make_canvas(cw, ch, c) ==
    IF cw * ch * 4 < 0
    THEN [err |-> "ValueError", px |-> <<>>]
    ELSE [err |-> "none", px |-> [i \in 0 .. (cw * ch - 1) |-> c]]

(***************************************************************************)
(* blend(px, w, h, x, y, color): source-over of one colour onto one pixel. *)
(* With sa_f = sa/255 and da_f = da/255,                                   *)
(*   out_a                  = (255*sa + da*(255 - sa)) / 255^2             *)
(*   out_a * 255            = (255*sa + da*(255 - sa)) / 255               *)
(*   comp(sc, dc)           = (255*sc*sa + dc*da*(255 - sa))               *)
(*                            / (255*sa + da*(255 - sa))                   *)
(* The result names the new buffer, the byte indices written, whether the  *)
(* out_a <= 0 branch ran, and the exception raised.                        *)
(***************************************************************************)
\* Fault: the source's own alpha left out of out_a.
blend_out_a_dst_only(sa, da) == da * (255 - sa)

blend_out_a(sa, da) == 255 * sa + da * (255 - sa)

\* Fault: the destination term without its factor (1 - sa_f).
blend_comp_unweighted(sc, dc, sa, da, tie) ==
    py_round(255 * sc * sa + dc * da * 255, 255 * sa + da * (255 - sa), tie)

blend_comp(sc, dc, sa, da, tie) ==
    py_round(255 * sc * sa + dc * da * (255 - sa), blend_out_a(sa, da), tie)

blend_alpha(sa, da) == py_round(blend_out_a(sa, da), 255, 0)

\* Fault: the test x >= w left out of the guard.
blend_bounds_guard_no_right(cw, ch, x, y) == x < 0 \/ y < 0 \/ y >= ch

blend_bounds_guard(cw, ch, x, y) == x < 0 \/ y < 0 \/ x >= cw \/ y >= ch

\* A subscript i of a sequence of n items as Python resolves it: a negative
\* one counts from the end; -1 stands for IndexError.
py_index(i, n) ==
    IF i >= 0 /\ i < n THEN i
    ELSE IF i < 0 /\ i + n >= 0 THEN i + n
    ELSE -1

blend(p, cw, ch, x, y, color, tie) ==
    LET same == [px |-> p, writes |-> {}, zero |-> FALSE, err |-> "none"]
        sa   == color[4]
        i    == (y * cw + x) * 4
        n    == py_index(y * cw + x, Cardinality(DOMAIN p))
    IN  IF blend_bounds_guard(cw, ch, x, y) THEN same
        ELSE IF sa <= 0 THEN same
        ELSE IF n < 0
        THEN [px |-> p, writes |-> {}, zero |-> FALSE, err |-> "IndexError"]
        ELSE
        LET d  == p[n]
            da == d[4]
        IN  IF blend_out_a(sa, da) <= 0
            THEN [px |-> [p EXCEPT ![n] = <<0, 0, 0, 0>>],
                  writes |-> i .. (i + 3), zero |-> TRUE, err |-> "none"]
            ELSE
            LET c == << blend_comp(color[1], d[1], sa, da, tie),
                        blend_comp(color[2], d[2], sa, da, tie),
                        blend_comp(color[3], d[3], sa, da, tie),
                        blend_alpha(sa, da) >>
            IN  [px |-> [p EXCEPT ![n] = c],
                 writes |-> i .. (i + 3), zero |-> FALSE,
                 err |-> IF \A k \in 1 .. 4 : is_byte(c[k])
                         THEN "none" ELSE "ValueError"]

(***************************************************************************)
(* lerp, mix and fill_linear_gradient.  t is the fraction tn / td with     *)
(* td > 0; lerp(a, b, t) = (a*td + (b - a)*tn) / td.  With                 *)
(* tx = x / dx and ty = y / dy (dx = max(1, w-1), dy = max(1, h-1)),       *)
(*   (tx*0.6 + ty*0.9) / 1.5 = (2*x*dy + 3*y*dx) / (5*dx*dy).             *)
(***************************************************************************)
lerp_num(a, b, tn, td) == a * td + (b - a) * tn

mix(c1, c2, tn, td, tie) ==
    [k \in 1 .. 4 |-> py_round(lerp_num(c1[k], c2[k], tn, td), td, tie)]

\* Fault: the span without max(1, ...).
gradient_span_unclamped(n) == n - 1

gradient_span(n) == Max2(1, n - 1)

gradient_t(cw, ch, x, y) ==
    LET dx == gradient_span(cw)
        dy == gradient_span(ch)
        n  == 2 * x * dy + 3 * y * dx
        d  == 5 * dx * dy
    IN  [n |-> Max2(0, Min2(d, n)), d |-> d]

fill_linear_gradient(p, cw, ch, c_tl, c_br, tie) ==
    IF cw * ch > 0 /\ (gradient_span(cw) = 0 \/ gradient_span(ch) = 0)
    THEN [px |-> p, writes |-> {}, zero |-> FALSE, err |-> "ZeroDivisionError"]
    ELSE [px |-> [n \in 0 .. (cw * ch - 1) |->
                    LET t == gradient_t(cw, ch, n % cw, n \div cw)
                    IN  mix(c_tl, c_br, t.n, t.d, tie)],
          writes |-> 0 .. (cw * ch * 4 - 1),
          zero |-> FALSE,
          err |-> "none"]

(***************************************************************************)
(* Distances.  d is a distance the program gets from math.hypot; the model *)
(* holds its square as the fraction d2.n / d2.m (m > 0) and decides every  *)
(* comparison of d with a length v on the squares.  eps = 1 says that the  *)
(* program's d lies above that value by less than any length of the model  *)
(* (see draw_diag_glow); it then decides the comparisons of equal values.  *)
(***************************************************************************)
dist2(x, y, cx, cy) ==
    [n |-> (4 * x + 2 - cx) * (4 * x + 2 - cx) + (4 * y + 2 - cy) * (4 * y + 2 - cy),
     m |-> 1, eps |-> 0]

\* d <= v
d_le(d2, v) ==
    /\ v >= 0
    /\ \/ d2.n < v * v * d2.m
       \/ d2.n = v * v * d2.m /\ d2.eps = 0

\* d >= v
d_ge(d2, v) == v <= 0 \/ d2.n >= v * v * d2.m

\* d < v
d_lt(d2, v) == ~d_ge(d2, v)

(***************************************************************************)
(* int(ca * a) for a coverage a that is a clamped ramp of d.  k <= ca * a  *)
(* is decided exactly, and the largest such k in 0 .. ca is found by       *)
(* bisection (k <= ca * a holds for k = 0 and is monotone in k).           *)
(*   falling ramp  a = max(0, min(1, (top - d) / den)):                    *)
(*       k <= ca*a  iff  ca*d <= ca*top - k*den                            *)
(*   rising ramp   a = max(0, min(1, (d - bot) / den)):                    *)
(*       k <= ca*a  iff  ca*d >= ca*bot + k*den                            *)
(* with ca*d compared through its square ca*ca*d2.                         *)
(***************************************************************************)
scaled(d2, ca) == [n |-> ca * ca * d2.n, m |-> d2.m, eps |-> d2.eps]

fall_ok(ca, top, d2, den, k) == k = 0 \/ d_le(scaled(d2, ca), ca * top - k * den)

rise_ok(ca, bot, d2, den, k) == k = 0 \/ d_ge(scaled(d2, ca), ca * bot + k * den)

RECURSIVE fall_search(_, _, _, _, _, _)
fall_search(ca, top, d2, den, lo, hi) ==
    IF lo >= hi THEN lo
    ELSE LET mid == (lo + hi + 1) \div 2
         IN  IF fall_ok(ca, top, d2, den, mid)
             THEN fall_search(ca, top, d2, den, mid, hi)
             ELSE fall_search(ca, top, d2, den, lo, mid - 1)

RECURSIVE rise_search(_, _, _, _, _, _)
rise_search(ca, bot, d2, den, lo, hi) ==
    IF lo >= hi THEN lo
    ELSE LET mid == (lo + hi + 1) \div 2
         IN  IF rise_ok(ca, bot, d2, den, mid)
             THEN rise_search(ca, bot, d2, den, mid, hi)
             ELSE rise_search(ca, bot, d2, den, lo, mid - 1)

\* A coverage a, as the rasterizers use it: pos is a > 0, sa is int(ca * a)
\* for the ca in hand, err is the exception its computation raised.
full_cover(ca) == [pos |-> TRUE, sa |-> ca, err |-> "none"]

no_cover == [pos |-> FALSE, sa |-> 0, err |-> "none"]

div_zero == [pos |-> FALSE, sa |-> 0, err |-> "ZeroDivisionError"]

\* a = max(0.0, min(1.0, (top - d) / den))
fall_cover(ca, top, d2, den) ==
    IF den = 0 THEN div_zero
    ELSE [pos |-> d_lt(d2, top),
          sa  |-> fall_search(ca, top, d2, den, 0, ca),
          err |-> "none"]

\* a = max(0.0, min(1.0, (d - bot) / den))
rise_cover(ca, bot, d2, den) ==
    IF den = 0 THEN div_zero
    ELSE [pos |-> ~d_le(d2, bot),
          sa  |-> rise_search(ca, bot, d2, den, 0, ca),
          err |-> "none"]

\* min(a_out, a_in)
min_cover(a, b) ==
    [pos |-> a.pos /\ b.pos,
     sa  |-> Min2(a.sa, b.sa),
     err |-> IF a.err # "none" THEN a.err ELSE b.err]

(***************************************************************************)
(* The pixel scan shared by the rasterizers: the box x0..x1 by y0..y1 in   *)
(* row-major order, a coverage for each pixel, and blend for the pixels    *)
(* the rasterizer passes on.  An exception ends the scan.                  *)
(***************************************************************************)
scan_box(x0, x1, y0, y1) ==
    IF x1 < x0 \/ y1 < y0 THEN <<>>
    ELSE LET nx == x1 - x0 + 1
         IN  [k \in 1 .. (nx * (y1 - y0 + 1)) |->
                 << x0 + ((k - 1) % nx), y0 + ((k - 1) \div nx) >>]

\* The first and last index of range(lo, hi+1) clipped as the rasterizers do:
\* max(0, int(lo)) and min(n - 1, int(hi)), lo and hi in quarter pixels.
\* Fault: the scan starts at index 1.
clip_lo_from_one(lo) == IF lo < 8 THEN 1 ELSE lo \div 4

clip_lo(lo) == Max2(0, py_int(lo, 4))

clip_hi(n, hi) == Min2(n - 1, py_int(hi, 4))

RECURSIVE composite(_, _, _, _, _, _, _, _)
composite(acc, cw, ch, color, scan, shade, k, tie) ==
    IF k > Len(scan) THEN acc
    ELSE IF shade[k].err # "none" THEN [acc EXCEPT !.err = shade[k].err]
    ELSE IF ~shade[k].hit
    THEN composite(acc, cw, ch, color, scan, shade, k + 1, tie)
    ELSE LET x == scan[k][1]
             y == scan[k][2]
             b == blend(acc.px, cw, ch, x, y,
                        <<color[1], color[2], color[3], shade[k].sa>>, tie)
             nxt == [px     |-> b.px,
                     blends |-> acc.blends \cup
                                {[x |-> x, y |-> y, sa |-> shade[k].sa,
                                  pos |-> shade[k].pos]},
                     writes |-> acc.writes \cup b.writes,
                     zero   |-> acc.zero \/ b.zero,
                     err    |-> b.err]
         IN  IF b.err # "none" THEN nxt
             ELSE composite(nxt, cw, ch, color, scan, shade, k + 1, tie)

raster_start(p) ==
    [px |-> p, blends |-> {}, writes |-> {}, zero |-> FALSE, err |-> "none"]

\* What a rasterizer does with a coverage: hit is whether it calls blend.
shade_if_pos(a) == [hit |-> a.pos, pos |-> a.pos, sa |-> a.sa, err |-> a.err]

shade_always(a) == [hit |-> TRUE, pos |-> a.pos, sa |-> a.sa, err |-> a.err]

shade_skip == [hit |-> FALSE, pos |-> FALSE, sa |-> 0, err |-> "none"]

(***************************************************************************)
(* draw_soft_circle                                                        *)
(***************************************************************************)
\* Fault: the feather ramp runs the wrong way, (d - (r - feather)) / (2*feather).
soft_circle_cover_rising(ca, d2, r, feather) ==
    IF d_le(d2, r - feather) THEN [pos |-> TRUE, sa |-> ca, err |-> "none"]
    ELSE IF d_le(d2, r + feather)
         THEN [pos |-> TRUE,
               sa  |-> rise_search(ca, r - feather, d2, 2 * feather, 0, ca),
               err |-> "none"]
         ELSE [pos |-> FALSE, sa |-> 0, err |-> "none"]

soft_circle_cover(ca, d2, r, feather) ==
    IF d_le(d2, r - feather) THEN full_cover(ca)
    ELSE IF d_le(d2, r + feather)
         THEN fall_cover(ca, r + feather, d2, 2 * feather)
         ELSE no_cover

draw_soft_circle(p, cw, ch, cx, cy, r, color, feather, tie) ==
    LET scan  == scan_box(clip_lo(cx - r - feather - 4),
                          clip_hi(cw, cx + r + feather + 4),
                          clip_lo(cy - r - feather - 4),
                          clip_hi(ch, cy + r + feather + 4))
        shade == [k \in 1 .. Len(scan) |->
                    shade_if_pos(soft_circle_cover(color[4],
                        dist2(scan[k][1], scan[k][2], cx, cy), r, feather))]
    IN  composite(raster_start(p), cw, ch, color, scan, shade, 1, tie)

(***************************************************************************)
(* draw_ring.  thickness is a multiple of 1/2, so thickness / 2 is a whole *)
(* number of quarter pixels.                                               *)
(***************************************************************************)
ring_outer(r, thickness) == r + (thickness \div 2)

\* Fault: inner computed with + for -.
ring_inner_plus(r, thickness) == IF r + (thickness \div 2) > 0 THEN r + (thickness \div 2) ELSE 0

ring_inner(r, thickness) == Max2(0, r - (thickness \div 2))

ring_cover(ca, d2, r, thickness, feather) ==
    LET outer == ring_outer(r, thickness)
        inner == ring_inner(r, thickness)
    IN  IF d_ge(d2, inner + feather) /\ d_le(d2, outer - feather)
        THEN full_cover(ca)
        ELSE IF d_ge(d2, inner - feather) /\ d_le(d2, outer + feather)
        THEN LET a_out == IF d_le(d2, outer - feather) THEN full_cover(ca)
                          ELSE fall_cover(ca, outer + feather, d2, 2 * feather)
                 a_in  == IF d_ge(d2, inner + feather) THEN full_cover(ca)
                          ELSE rise_cover(ca, inner - feather, d2, 2 * feather)
             IN  min_cover(a_out, a_in)
        ELSE no_cover

draw_ring(p, cw, ch, cx, cy, r, thickness, color, feather, tie) ==
    LET outer == ring_outer(r, thickness)
        scan  == scan_box(clip_lo(cx - outer - feather - 4),
                          clip_hi(cw, cx + outer + feather + 4),
                          clip_lo(cy - outer - feather - 4),
                          clip_hi(ch, cy + outer + feather + 4))
        shade == [k \in 1 .. Len(scan) |->
                    shade_if_pos(ring_cover(color[4],
                        dist2(scan[k][1], scan[k][2], cx, cy),
                        r, thickness, feather))]
    IN  composite(raster_start(p), cw, ch, color, scan, shade, 1, tie)

(***************************************************************************)
(* draw_diag_glow.  The distance is to the nearest point q = p0 + v*t of   *)
(* the segment, t = max(0, min(1, dot / vlen2)).  vlen2 carries the        *)
(* program's + 1e-6: it decides the segment of no length (dot = 0, t = 0), *)
(* and for dot > 0 it keeps t below dot / |v|^2 by about one part in a     *)
(* million, which moves q along the segment and leaves d above the exact   *)
(* distance by an amount that the doubles may or may not resolve.  The     *)
(* model computes the exact distance, |p - p0|^2 - dot^2 / |v|^2 squared   *)
(* for 0 < dot < |v|^2, and marks it eps = tie where q is so moved.        *)
(***************************************************************************)
glow_dist2(x, y, x0, y0, x1, y1, tie) ==
    LET vx  == x1 - x0
        vy  == y1 - y0
        px0 == 4 * x + 2 - x0
        py0 == 4 * y + 2 - y0
        dot == px0 * vx + py0 * vy
        v2  == vx * vx + vy * vy
        p2  == px0 * px0 + py0 * py0
    IN  IF dot <= 0 THEN [n |-> p2, m |-> 1, eps |-> 0]
        ELSE IF dot > v2 THEN [n |-> p2 - 2 * dot + v2, m |-> 1, eps |-> 0]
        ELSE [n |-> p2 * v2 - dot * dot, m |-> v2, eps |-> tie]

glow_shade(ca, d2, width, feather) ==
    IF d_le(d2, width + feather)
    THEN IF d_le(d2, width) THEN shade_always(full_cover(ca))
         ELSE shade_always(fall_cover(ca, width + feather, d2, feather))
    ELSE shade_skip

draw_diag_glow(p, cw, ch, x0, y0, x1, y1, width, color, feather, tie) ==
    LET scan  == scan_box(clip_lo(Min2(x0, x1) - width - feather - 8),
                          clip_hi(cw, Max2(x0, x1) + width + feather + 8),
                          clip_lo(Min2(y0, y1) - width - feather - 8),
                          clip_hi(ch, Max2(y0, y1) + width + feather + 8))
        shade == [k \in 1 .. Len(scan) |->
                    glow_shade(color[4],
                        glow_dist2(scan[k][1], scan[k][2], x0, y0, x1, y1, tie),
                        width, feather)]
    IN  composite(raster_start(p), cw, ch, color, scan, shade, 1, tie)

(***************************************************************************)
(* draw_rounded_rect_stroke.  rw and rh are multiples of 1/2, so rw/2 and  *)
(* rh/2 are whole numbers of quarter pixels.  The signed distance is       *)
(* dist = hyp + c with hyp = hypot(max(qx,0), max(qy,0)), held as its      *)
(* square, and c = min(max(qx,qy), 0) - radius.  With ad = |dist| and      *)
(* m = max(1, thickness), a = max(0, 1 - ad/m) and                         *)
(*     k <= ca*a  iff  ca*ad <= (ca - k)*m                                 *)
(*                iff  -(ca - k)*m - ca*c <= ca*hyp <= (ca - k)*m - ca*c.  *)
(***************************************************************************)
stroke_q(pc, lo, size, radius) == Abs(pc - (lo + (size \div 2))) - ((size \div 2) - radius)

stroke_hyp2(qx, qy) ==
    [n |-> Max2(qx, 0) * Max2(qx, 0) + Max2(qy, 0) * Max2(qy, 0), m |-> 1,
     eps |-> 0]

stroke_c(qx, qy, radius) == Min2(Max2(qx, qy), 0) - radius

\* ad <= v
ad_le(hyp2, c, v) == d_le(hyp2, v - c) /\ d_ge(hyp2, (-v) - c)

\* ad >= v
ad_ge(hyp2, c, v) == d_ge(hyp2, v - c) \/ d_le(hyp2, (-v) - c)

\* Fault: the falloff divides by thickness, without max(1.0, ...).
stroke_falloff_unclamped(thickness) == thickness

stroke_falloff(thickness) == Max2(4, thickness)

stroke_ok(ca, hyp2, c, m, k) ==
    k = 0 \/ ( /\ d_le(scaled(hyp2, ca), (ca - k) * m - ca * c)
               /\ d_ge(scaled(hyp2, ca), (-((ca - k) * m)) - ca * c) )

RECURSIVE stroke_search(_, _, _, _, _, _)
stroke_search(ca, hyp2, c, m, lo, hi) ==
    IF lo >= hi THEN lo
    ELSE LET mid == (lo + hi + 1) \div 2
         IN  IF stroke_ok(ca, hyp2, c, m, mid)
             THEN stroke_search(ca, hyp2, c, m, mid, hi)
             ELSE stroke_search(ca, hyp2, c, m, lo, mid - 1)

\* The pixels the stroke passes to blend.
stroke_guard(hyp2, c, thickness) == ad_le(hyp2, c, thickness)

stroke_shade(ca, qx, qy, radius, thickness) ==
    LET hyp2 == stroke_hyp2(qx, qy)
        c    == stroke_c(qx, qy, radius)
        m    == stroke_falloff(thickness)
    IN  IF stroke_guard(hyp2, c, thickness)
        THEN [hit |-> TRUE,
              pos |-> ~ad_ge(hyp2, c, m),
              sa  |-> stroke_search(ca, hyp2, c, m, 0, ca),
              err |-> "none"]
        ELSE shade_skip

draw_rounded_rect_stroke(p, cw, ch, x, y, rw, rh, radius, thickness, color, tie) ==
    LET scan  == scan_box(clip_lo(x - thickness - 8),
                          clip_hi(cw, x + rw + thickness + 8),
                          clip_lo(y - thickness - 8),
                          clip_hi(ch, y + rh + thickness + 8))
        shade == [k \in 1 .. Len(scan) |->
                    stroke_shade(color[4],
                        stroke_q(4 * scan[k][1] + 2, x, rw, radius),
                        stroke_q(4 * scan[k][2] + 2, y, rh, radius),
                        radius, thickness)]
    IN  composite(raster_start(p), cw, ch, color, scan, shade, 1, tie)

(***************************************************************************)
(* The container encoder.  Bytes are numbers 0 .. 255, byte strings are    *)
(* sequences.  A 32-bit value that may exceed 2^31 - 1 (the CRC) is held   *)
(* as its two 16-bit halves <<high, low>>.                                 *)
(***************************************************************************)
\* struct.pack('>I', n), 0 <= n < 2^31: the four bytes of n, high byte first.
\* Fault: the four bytes least significant first, as '<I' packs them.
pack_le32(n) ==
    << n % 256, (n \div 256) % 256, (n \div 65536) % 256, (n \div 16777216) % 256 >>

pack_be32(n) ==
    << (n \div 16777216) % 256, (n \div 65536) % 256, (n \div 256) % 256, n % 256 >>

RECURSIVE xor_bits(_, _)
xor_bits(a, b) ==
    IF a = 0 THEN b
    ELSE IF b = 0 THEN a
    ELSE ((a + b) % 2) + 2 * xor_bits(a \div 2, b \div 2)

\* One bit of the CRC-32 register (reflected polynomial EDB88320 hex).
crc_bit(c) ==
    LET hi == c[1] \div 2
        lo == (c[2] \div 2) + 32768 * (c[1] % 2)
    IN  IF c[2] % 2 = 1
        THEN << xor_bits(hi, 60856), xor_bits(lo, 33568) >>
        ELSE << hi, lo >>

crc_byte(c, b) ==
    crc_bit(crc_bit(crc_bit(crc_bit(crc_bit(crc_bit(crc_bit(crc_bit(
        << c[1], xor_bits(c[2], b) >>))))))))

\* The register after the bytes k .. Len(data) of data (the test c[1] >= 0,
\* always true, has TLC evaluate the register before it goes on).
RECURSIVE crc_run(_, _, _)
crc_run(c, data, k) ==
    IF k <= Len(data) /\ c[1] >= 0
    THEN crc_run(crc_byte(c, data[k]), data, k + 1)
    ELSE c

\* struct.pack('>I', zlib.crc32(data) & 0xFFFFFFFF)
crc32_be(data) ==
    LET c  == crc_run(<<65535, 65535>>, data, 1)
        hi == xor_bits(c[1], 65535)
        lo == xor_bits(c[2], 65535)
    IN  << hi \div 256, hi % 256, lo \div 256, lo % 256 >>

chunk(tag, data) ==
    pack_be32(Len(data)) \o tag \o data \o crc32_be(tag \o data)

\* The rows of the canvas, each after a filter byte 0.
scanlines(cw, ch, p) ==
    [k \in 1 .. (ch * (1 + 4 * cw)) |->
        LET y == (k - 1) \div (1 + 4 * cw)
            j == (k - 1) % (1 + 4 * cw)
        IN  IF j = 0 THEN 0
            ELSE p[y * cw + ((j - 1) \div 4)][((j - 1) % 4) + 1]]

PngSignature == <<137, 80, 78, 71, 13, 10, 26, 10>>

TagIHDR == <<73, 72, 68, 82>>

TagIDAT == <<73, 68, 65, 84>>

TagIEND == <<73, 69, 78, 68>>

\* zlib.compress(raw, level=9) is not code of the program: of its result the
\* model keeps the two header bytes of a level-9 stream and lets the rest be
\* any of a few byte strings, whatever raw is.
ZlibBodies == { <<3, 0, 0, 0, 0, 1>>, <<99, 96, 96, 96, 248, 15, 0, 1, 4, 1, 0>>,
                <<99, 0, 1, 0, 0, 5, 0, 1, 13, 10, 45, 180, 73, 69, 78, 68>> }

zlib_compress(raw, body) == <<120, 218>> \o body

\* save_png(path, w, h, rgba): the bytes written to the file.  struct.pack
\* refuses a negative width or height, and nothing is written.
save_png(cw, ch, p, body) ==
    LET raw        == scanlines(Max2(cw, 0), Max2(ch, 0), p)
        compressed == zlib_compress(raw, body)
    IN  IF cw < 0 \/ ch < 0
        THEN [err |-> "struct.error", out |-> <<>>, raw |-> raw]
        ELSE [err |-> "none",
              out |-> PngSignature
                      \o chunk(TagIHDR, pack_be32(cw) \o pack_be32(ch) \o <<8, 6, 0, 0, 0>>)
                      \o chunk(TagIDAT, compressed)
                      \o chunk(TagIEND, <<>>),
              raw |-> raw]

(***************************************************************************)
(* Colours of the program (draw_personalens_icon, generate).               *)
(***************************************************************************)
Clear == <<0, 0, 0, 0>>

Black == <<0, 0, 0, 255>>

Navy == <<8, 14, 37, 255>>

Blue == <<34, 107, 255, 255>>

Teal == <<0, 255, 245, 45>>

White70 == <<255, 255, 255, 70>>

Red == <<255, 0, 0, 255>>

(***************************************************************************)
(* The calls as actions.  A call that raised ends the program: no call     *)
(* follows it.  done(c, res, shape) records the call c and its result.     *)
(***************************************************************************)
done(c, res, shape) ==
    /\ err = "none"
    /\ pre' = px
    /\ px' = res.px
    /\ call' = c
    /\ blends' = res.blends
    /\ writes' = res.writes
    /\ zero' = res.zero
    /\ err' = res.err
    /\ out' = <<>>
    /\ ncalls' = ncalls + 1
    /\ shapes' = (shapes /\ shape)
    /\ UNCHANGED <<w, h, bg>>

Created(cw, ch, c) ==
    /\ w = cw
    /\ h = ch
    /\ bg = c
    /\ px = make_canvas(cw, ch, c).px
    /\ pre = px
    /\ call = [op |-> "make_canvas", w |-> cw, h |-> ch, bg |-> c]
    /\ blends = {}
    /\ writes = {}
    /\ zero = FALSE
    /\ err = make_canvas(cw, ch, c).err
    /\ out = <<>>
    /\ ncalls = 0
    /\ shapes = TRUE

Blend(x, y, color, tie) ==
    LET b == blend(px, w, h, x, y, color, tie)
    IN  done([op |-> "blend", x |-> x, y |-> y, color |-> color],
             [px |-> b.px, blends |-> {}, writes |-> b.writes,
              zero |-> b.zero, err |-> b.err],
             FALSE)

FillLinearGradient(c_tl, c_br, tie) ==
    LET f == fill_linear_gradient(px, w, h, c_tl, c_br, tie)
    IN  done([op |-> "fill_linear_gradient", c_tl |-> c_tl, c_br |-> c_br],
             [px |-> f.px, blends |-> {}, writes |-> f.writes,
              zero |-> f.zero, err |-> f.err],
             FALSE)

DrawSoftCircle(cx, cy, r, color, feather, tie) ==
    done([op |-> "draw_soft_circle", cx |-> cx, cy |-> cy, r |-> r,
          color |-> color, feather |-> feather],
         draw_soft_circle(px, w, h, cx, cy, r, color, feather, tie),
         TRUE)

DrawRing(cx, cy, r, thickness, color, feather, tie) ==
    done([op |-> "draw_ring", cx |-> cx, cy |-> cy, r |-> r,
          thickness |-> thickness, color |-> color, feather |-> feather],
         draw_ring(px, w, h, cx, cy, r, thickness, color, feather, tie),
         TRUE)

DrawDiagGlow(x0, y0, x1, y1, width, color, feather, tie) ==
    done([op |-> "draw_diag_glow", x0 |-> x0, y0 |-> y0, x1 |-> x1, y1 |-> y1,
          width |-> width, color |-> color, feather |-> feather],
         draw_diag_glow(px, w, h, x0, y0, x1, y1, width, color, feather, tie),
         TRUE)

DrawRoundedRectStroke(x, y, rw, rh, radius, thickness, color, tie) ==
    done([op |-> "draw_rounded_rect_stroke", x |-> x, y |-> y, rw |-> rw,
          rh |-> rh, radius |-> radius, thickness |-> thickness,
          color |-> color],
         draw_rounded_rect_stroke(px, w, h, x, y, rw, rh, radius, thickness,
                                  color, tie),
         TRUE)

\* The program before it has made a canvas.
NoCanvas ==
    /\ w = 0
    /\ h = 0
    /\ bg = Clear
    /\ px = <<>>
    /\ pre = <<>>
    /\ call = [op |-> "none"]
    /\ blends = {}
    /\ writes = {}
    /\ zero = FALSE
    /\ err = "none"
    /\ out = <<>>
    /\ ncalls = 0
    /\ shapes = TRUE

MakeCanvas(cw, ch, c) ==
    /\ call.op = "none"
    /\ w' = cw
    /\ h' = ch
    /\ bg' = c
    /\ px' = make_canvas(cw, ch, c).px
    /\ pre' = px'
    /\ call' = [op |-> "make_canvas", w |-> cw, h |-> ch, bg |-> c]
    /\ err' = make_canvas(cw, ch, c).err
    /\ UNCHANGED <<blends, writes, zero, out, ncalls, shapes>>

Chunk(tag, data) ==
    /\ call.op = "none"
    /\ call' = [op |-> "chunk", tag |-> tag, data |-> data]
    /\ out' = chunk(tag, data)
    /\ UNCHANGED <<w, h, bg, px, pre, blends, writes, zero, err, ncalls, shapes>>

SavePng(body) ==
    LET s == save_png(w, h, px, body)
    IN  /\ call.op # "none"
        /\ call.op # "chunk"
        /\ call.op # "save_png"
        /\ err = "none"
        /\ call' = [op |-> "save_png", raw |-> s.raw]
        /\ out' = s.out
        /\ err' = s.err
        /\ pre' = px
        /\ blends' = {}
        /\ writes' = {}
        /\ zero' = FALSE
        /\ UNCHANGED <<w, h, bg, px, ncalls, shapes>>

Ties == {0, 1}

(***************************************************************************)
(* Spec: a canvas of up to MaxDim by MaxDim pixels, created clear or       *)
(* opaque black, and up to MaxCalls drawing calls on it in any order.      *)
(* Lengths are in quarter pixels.                                          *)
(***************************************************************************)
MaxDim == 2

MaxCalls == 2

\* <<cx, cy, r, color, feather>>
SoftCircles ==
    { <<4, 4, 40, Red, 0>>, <<6, 2, 8, Red, 2>>, <<-24, 2, 8, Red, 4>> }

\* <<cx, cy, r, thickness, color, feather>>
Rings ==
    { <<6, 2, 4, 16, Teal, 8>>, <<2, 40, 4, 4, Red, 2>> }

\* <<x0, y0, x1, y1, width, color, feather>>
Glows ==
    { <<0, 8, 8, 0, 1, Teal, 4>>, <<2, 2, 2, 2, 2, White70, 2>>,
      <<-40, -40, -30, -30, 2, Red, 4>> }

\* <<x, y, rw, rh, radius, thickness, color>>
Strokes ==
    { <<0, 0, 8, 8, 2, 2, Red>>, <<1, 1, 6, 6, 0, 4, Teal>>, <<40, 0, 8, 8, 2, 4, Red>> }

\* <<c_tl, c_br>>
Gradients == { <<Navy, Blue>>, <<Clear, Red>> }

\* <<x, y, color>> of the direct calls of blend: inside the canvas and just
\* outside it.
BlendPoints ==
    { <<-1, 0, Red>>, <<0, -1, Red>>, <<w, 0, Red>>, <<0, h, Red>>,
      <<w - 1, h - 1, Red>>, <<0, 0, Teal>> }

Init == \E cw \in 1 .. MaxDim, ch \in 1 .. MaxDim, c \in {Clear, Black} : Created(cw, ch, c)

More == ncalls < MaxCalls

CallBlend ==
    /\ More
    /\ \E b \in BlendPoints, tie \in Ties : Blend(b[1], b[2], b[3], tie)

CallFill ==
    /\ More
    /\ \E g \in Gradients, tie \in Ties : FillLinearGradient(g[1], g[2], tie)

CallSoftCircle ==
    /\ More
    /\ \E a \in SoftCircles, tie \in Ties : DrawSoftCircle(a[1], a[2], a[3], a[4], a[5], tie)

CallRing ==
    /\ More
    /\ \E a \in Rings, tie \in Ties : DrawRing(a[1], a[2], a[3], a[4], a[5], a[6], tie)

CallGlow ==
    /\ More
    /\ \E a \in Glows, tie \in Ties :
        DrawDiagGlow(a[1], a[2], a[3], a[4], a[5], a[6], a[7], tie)

CallStroke ==
    /\ More
    /\ \E a \in Strokes, tie \in Ties :
        DrawRoundedRectStroke(a[1], a[2], a[3], a[4], a[5], a[6], a[7], tie)

Next ==
    \/ CallBlend
    \/ CallFill
    \/ CallSoftCircle
    \/ CallRing
    \/ CallGlow
    \/ CallStroke

Spec == Init /\ [][Next]_vars

(***************************************************************************)
(* SpecPng: the encoder.  From the program without a canvas, either chunk  *)
(* is called on a tag and a payload, or a canvas is made (of any width and *)
(* height, the non-positive ones included) and saved.                      *)
(***************************************************************************)
PngWidths == {-1, 0, 1, 2, 255, 256, 300}

PngHeights == {-1, 0, 1, 2}

ChunkTags == { <<>>, <<65, 66, 67>>, <<84, 69, 83, 84>>, TagIEND, <<73, 68, 65, 84, 88>> }

ChunkData == { <<>>, <<0>>, <<1, 2, 3>>, <<255, 0, 255, 0, 255>> }

PngMake ==
    \E cw \in PngWidths, ch \in PngHeights, c \in {Clear, Black} : MakeCanvas(cw, ch, c)

PngChunk == \E tag \in ChunkTags, data \in ChunkData : Chunk(tag, data)

PngSave == \E body \in ZlibBodies : SavePng(body)

NextPng == PngMake \/ PngChunk \/ PngSave

SpecPng == NoCanvas /\ [][NextPng]_vars

(***************************************************************************)
(* SpecBlend: blend as a function of the pixel it finds and the colour it  *)
(* is given.  The canvas is one or two pixels wide and one high, created   *)
(* with any alpha; on it blend is called once with a colour of any alpha,  *)
(* or the shape rasterizers are called, up to MaxCalls of them.            *)
(***************************************************************************)
Alphas == 0 .. 255

Lime == <<0, 255, 70>>

Pink == <<255, 46, 145>>

ShadeAlphas == {0, 1, 64, 128, 254, 255}

Shading == More /\ shapes /\ bg[4] \in ShadeAlphas

InitBlend ==
    \E cw \in 1 .. 2, a \in Alphas : Created(cw, 1, <<Lime[1], Lime[2], Lime[3], a>>)

BlendOnce ==
    /\ ncalls = 0
    /\ \E a \in Alphas, tie \in Ties : Blend(w - 1, 0, <<Pink[1], Pink[2], Pink[3], a>>, tie)

ShadeSoftCircle ==
    /\ Shading
    /\ \E c \in {Red, Teal}, r \in {2, 4}, tie \in Ties : DrawSoftCircle(2, 2, r, c, 2, tie)

ShadeRing ==
    /\ Shading
    /\ \E c \in {Red, White70}, tie \in Ties : DrawRing(6, 2, 4, 4, c, 4, tie)

ShadeGlow ==
    /\ Shading
    /\ \E c \in {Red, Teal}, tie \in Ties : DrawDiagGlow(0, 0, 8, 4, 1, c, 2, tie)

ShadeStroke ==
    /\ Shading
    /\ \E c \in {Red, White70}, tie \in Ties : DrawRoundedRectStroke(1, -8, 8, 16, 0, 2, c, tie)

NextBlend == BlendOnce \/ ShadeSoftCircle \/ ShadeRing \/ ShadeGlow \/ ShadeStroke

SpecBlend == InitBlend /\ [][NextBlend]_vars

(***************************************************************************)
(* SpecShape: one call of a rasterizer on a canvas just created, of up to  *)
(* MaxShapeW by MaxShapeH pixels, over many shapes.  Lengths are in        *)
(* quarter pixels; the feathers and the thicknesses below 1 are powers of  *)
(* two.                                                                    *)
(***************************************************************************)
MaxShapeW == 3

MaxShapeH == 2

InitShape ==
    \E cw \in 1 .. MaxShapeW, ch \in 1 .. MaxShapeH : Created(cw, ch, Clear)

ShapeSoftCircle ==
    /\ ncalls = 0
    /\ \E cx \in {2, 4, 6, 10}, cy \in {2, 6}, r \in {0, 2, 4, 6, 8, 40},
          feather \in {0, 1, 2, 4, 8}, c \in {Red, Teal}, tie \in Ties :
          DrawSoftCircle(cx, cy, r, c, feather, tie)

ShapeRing ==
    /\ ncalls = 0
    /\ \E cx \in {2, 4, 6, 10}, cy \in {2, 6}, r \in {0, 2, 4, 8},
          thickness \in {0, 4, 8, 16}, feather \in {0, 1, 2, 4, 8},
          c \in {Red, Teal}, tie \in Ties :
          DrawRing(cx, cy, r, thickness, c, feather, tie)

ShapeStroke ==
    /\ ncalls = 0
    /\ \E x \in {0, 1, 5}, y \in {0, -16}, rw \in {4, 8, 12}, rh \in {8, 40},
          radius \in {0, 2}, thickness \in {1, 2, 4, 8}, c \in {Red, Teal},
          tie \in Ties :
          DrawRoundedRectStroke(x, y, rw, rh, radius, thickness, c, tie)

NextShape == ShapeSoftCircle \/ ShapeRing \/ ShapeStroke

SpecShape == InitShape /\ [][NextShape]_vars

(***************************************************************************)
(* Properties of the PNG encoder, under SpecPng.                           *)
(***************************************************************************)
\* The number a four-byte big-endian field holds.
be_value(b) == ((b[1] * 256 + b[2]) * 256 + b[3]) * 256 + b[4]

\* The four-byte big-endian field of n >= 0, digit by digit.
be_field(n) == [k \in 1 .. 4 |-> (n \div (256 ^ (4 - k))) % 256]

\* The chunks a PNG reader finds in s from position k on: length, tag, data
\* and CRC one after another.  A chunk that overruns s reads as "cut".
RECURSIVE png_chunks(_, _)
png_chunks(s, k) ==
    IF k > Len(s) THEN <<>>
    ELSE IF k + 11 > Len(s) THEN << [tag |-> "cut", data |-> <<>>] >>
    ELSE LET n == be_value(SubSeq(s, k, k + 3))
         IN  IF k + 11 + n > Len(s) THEN << [tag |-> "cut", data |-> <<>>] >>
             ELSE << [tag  |-> SubSeq(s, k + 4, k + 7),
                      data |-> SubSeq(s, k + 8, k + 7 + n)] >>
                  \o png_chunks(s, k + 12 + n)

SavedPng == call.op = "save_png" /\ err = "none"

\* C3: a file save_png writes begins with the signature 89 50 4E 47 0D 0A
\* 1A 0A and holds exactly the chunks IHDR, IDAT, IEND in that order; the
\* IHDR payload is the width and the height as 4-byte big-endian numbers
\* and then 8, 6, 0, 0, 0; the file ends with the 12 bytes of the empty
\* IEND chunk.  A chunk made by chunk(tag, data) starts with len(data) as a
\* 4-byte big-endian number, then the tag, then the data, and with a 4-byte
\* tag it is 12 + len(data) bytes long.
C3_PngLayout ==
    /\ SavedPng =>
          LET cs == png_chunks(out, 9)
          IN  /\ Len(out) >= 8
              /\ SubSeq(out, 1, 8) = <<137, 80, 78, 71, 13, 10, 26, 10>>
              /\ Len(cs) = 3
              /\ cs[1].tag = <<73, 72, 68, 82>>
              /\ cs[2].tag = <<73, 68, 65, 84>>
              /\ cs[3].tag = <<73, 69, 78, 68>>
              /\ cs[1].data = be_field(w) \o be_field(h) \o <<8, 6, 0, 0, 0>>
              /\ be_value(SubSeq(cs[1].data, 1, 4)) = w
              /\ be_value(SubSeq(cs[1].data, 5, 8)) = h
              /\ cs[3].data = <<>>
              /\ SubSeq(out, Len(out) - 11, Len(out))
                   = <<0, 0, 0, 0, 73, 69, 78, 68, 174, 66, 96, 130>>
    /\ call.op = "chunk" =>
          LET nt == Len(call.tag)
              nd == Len(call.data)
          IN  /\ Len(out) = 8 + nt + nd
              /\ be_value(SubSeq(out, 1, 4)) = nd
              /\ SubSeq(out, 5, 4 + nt) = call.tag
              /\ SubSeq(out, 5 + nt, 4 + nt + nd) = call.data
              /\ nt = 4 => Len(out) = 12 + nd

\* A canvas 300 wide and 2 high has been saved: its width needs two bytes
\* of the IHDR field.
C3_Saved300x2 ==
    /\ SavedPng
    /\ w = 300
    /\ h = 2
    /\ png_chunks(out, 9)[1].data = <<0, 0, 1, 44, 0, 0, 0, 2, 8, 6, 0, 0, 0>>

\* C4: make_canvas fails on a width or a height that is not positive, and
\* chunk fails on a tag that is not 4 bytes long; neither produces output.
C4_InvalidInputRejected ==
    /\ (call.op = "make_canvas" /\ (call.w <= 0 \/ call.h <= 0)) => err # "none"
    /\ (call.op = "chunk" /\ Len(call.tag) # 4) => out = <<>>

(***************************************************************************)
(* Properties of the drawing calls on a canvas that earlier calls have     *)
(* drawn on, under Spec.  x and y number pixels; lengths are in quarter    *)
(* pixels, and the canvas is the rectangle from 0 to 4*w by 0 to 4*h.      *)
(***************************************************************************)
Pixels == (0 .. (w - 1)) \X (0 .. (h - 1))

PixelAt(x, y) == px[y * w + x]

\* An earlier call has left a pixel that is no longer the background.
DrawnOn == \E i \in DOMAIN pre : pre[i] # bg

\* The interval lo .. hi of one axis misses the canvas side of n pixels.
Misses(lo, hi, n) == hi < 0 \/ lo > 4 * n

\* The last call was a rasterizer whose shape, with its feather or its
\* thickness around it, lies wholly outside the canvas.
ShapeOutside ==
    \/ /\ call.op = "draw_soft_circle"
       /\ LET e == call.r + call.feather
          IN  \/ Misses(call.cx - e, call.cx + e, w)
              \/ Misses(call.cy - e, call.cy + e, h)
    \/ /\ call.op = "draw_ring"
       /\ LET e == call.r + (call.thickness \div 2) + call.feather
          IN  \/ Misses(call.cx - e, call.cx + e, w)
              \/ Misses(call.cy - e, call.cy + e, h)
    \/ /\ call.op = "draw_diag_glow"
       /\ LET e == call.width + call.feather
          IN  \/ Misses(Min2(call.x0, call.x1) - e, Max2(call.x0, call.x1) + e, w)
              \/ Misses(Min2(call.y0, call.y1) - e, Max2(call.y0, call.y1) + e, h)
    \/ /\ call.op = "draw_rounded_rect_stroke"
       /\ LET e == call.thickness
          IN  \/ Misses(call.x - e, call.x + call.rw + e, w)
              \/ Misses(call.y - e, call.y + call.rh + e, h)

BlendOutside ==
    /\ call.op = "blend"
    /\ (call.x < 0 \/ call.y < 0 \/ call.x >= w \/ call.y >= h)

\* C1: blend at a coordinate outside the canvas changes nothing and raises
\* nothing; a rasterizer whose shape lies outside the canvas changes
\* nothing and raises nothing; and no call writes a byte outside the
\* buffer of w*h*4 bytes.
C1_OutOfBoundsIgnored ==
    /\ BlendOutside => (px = pre /\ err = "none")
    /\ ShapeOutside => (px = pre /\ err = "none")
    /\ writes \subseteq (0 .. (w * h * 4 - 1))
    /\ DOMAIN px = 0 .. (w * h - 1)

\* blend was called with an opaque colour one column right of a canvas
\* that already had something drawn on it.
C1_BlendRightOfCanvas ==
    /\ BlendOutside
    /\ call.x = w
    /\ call.color[4] = 255
    /\ DrawnOn

\* C8: after fill_linear_gradient every pixel (x, y) is mix(c_tl, c_br, t)
\* with t = (x/max(1, w-1) * 0.6 + y/max(1, h-1) * 0.9) / 1.5, whatever the
\* pixel held before; the call raises nothing on any canvas, and on a 1 by
\* 1 canvas the pixel is c_tl.
C8_GradientOverwrites ==
    call.op = "fill_linear_gradient" =>
        /\ err = "none"
        /\ \A q \in Pixels :
              LET dx == IF w - 1 > 1 THEN w - 1 ELSE 1
                  dy == IF h - 1 > 1 THEN h - 1 ELSE 1
                  tn == 2 * q[1] * dy + 3 * q[2] * dx
                  td == 5 * dx * dy
              IN  \A k \in 1 .. 4 :
                     PixelAt(q[1], q[2])[k] \in
                        { mix(call.c_tl, call.c_br, tn, td, tie)[k] : tie \in Ties }
        /\ PixelAt(0, 0) = call.c_tl
        /\ (w = 1 /\ h = 1) => px[0] = call.c_tl

\* A 1 by 1 canvas whose pixel an earlier call had changed has been filled.
C8_Filled1x1 ==
    /\ call.op = "fill_linear_gradient"
    /\ w = 1
    /\ h = 1
    /\ DrawnOn
    /\ pre[0] # call.c_tl
    /\ px[0] = call.c_tl

\* Whether the centre of pixel (x, y) is within distance v of (cx, cy).
CentreWithin(x, y, cx, cy, v) ==
    /\ v >= 0
    /\ (4 * x + 2 - cx) * (4 * x + 2 - cx) + (4 * y + 2 - cy) * (4 * y + 2 - cy) <= v * v

\* C9: after draw_soft_circle with a colour of alpha 255, every pixel of
\* the canvas whose centre is at most r - feather from the centre of the
\* disc holds exactly that colour, whatever it held before; on a 2 by 2
\* canvas the disc at (1.0, 1.0) of radius 10 and feather 0 in opaque red
\* leaves all four pixels (255, 0, 0, 255).
C9_OpaqueDiscCovers ==
    (call.op = "draw_soft_circle" /\ call.color[4] = 255) =>
        /\ err = "none"
        /\ \A q \in Pixels :
              CentreWithin(q[1], q[2], call.cx, call.cy, call.r - call.feather)
                 => PixelAt(q[1], q[2]) = call.color

\* The red disc of radius 10 has been drawn over a 2 by 2 canvas created
\* opaque black, on which an earlier call had drawn.
C9_RedDiscOn2x2 ==
    /\ call = [op |-> "draw_soft_circle", cx |-> 4, cy |-> 4, r |-> 40,
               color |-> <<255, 0, 0, 255>>, feather |-> 0]
    /\ w = 2
    /\ h = 2
    /\ bg = <<0, 0, 0, 255>>
    /\ DrawnOn
    /\ \A i \in 0 .. 3 : px[i] = <<255, 0, 0, 255>> /\ pre[i] # px[i]

(***************************************************************************)
(* Properties of blend over the whole range of alphas, under SpecBlend.    *)
(***************************************************************************)
BlendInside ==
    /\ call.op = "blend"
    /\ call.x >= 0
    /\ call.y >= 0
    /\ call.x < w
    /\ call.y < h

\* C2: blend at a pixel of the canvas with a colour of alpha 255 leaves the
\* pixel exactly that colour, whatever it held; with a colour of alpha 0 it
\* leaves the buffer as it was.  No other pixel changes in either case.
C2_OpaqueReplacesClearKeeps ==
    BlendInside =>
        LET n == call.y * w + call.x
        IN  /\ call.color[4] = 255 => px[n] = call.color
            /\ call.color[4] = 0 => px = pre
            /\ \A i \in DOMAIN px : i # n => px[i] = pre[i]

\* An opaque colour has been blended onto a half-transparent pixel of
\* another colour.
C2_OpaqueOverPartial ==
    /\ BlendInside
    /\ call.color[4] = 255
    /\ pre[call.y * w + call.x][4] = 128
    /\ px[call.y * w + call.x] = call.color
    /\ px # pre

\* C10: no call of blend or of a rasterizer lowers the alpha of a pixel;
\* every channel it stores is within 0 .. 255; the branch for out_a <= 0 is
\* never taken once the source alpha has passed the sa <= 0 test; and on a
\* canvas created with alpha 255 every pixel still has alpha 255 after any
\* sequence of rasterizer calls.
C10_AlphaNeverLowered ==
    /\ err = "none"
    /\ zero = FALSE
    /\ \A i \in DOMAIN px :
          /\ px[i][4] >= pre[i][4]
          /\ \A k \in 1 .. 4 : px[i][k] \in 0 .. 255
    /\ (bg[4] = 255 /\ shapes) => \A i \in DOMAIN px : px[i][4] = 255

\* A rasterizer has changed the colour of a pixel of a canvas created
\* opaque, after another rasterizer call.
C10_ShadedOpaqueTwice ==
    /\ bg[4] = 255
    /\ shapes
    /\ ncalls = 2
    /\ \E i \in DOMAIN px : px[i] # pre[i] /\ px[i][4] = 255 /\ pre[i] # bg

(***************************************************************************)
(* Properties of the coverage each rasterizer applies, under SpecShape.    *)
(* blends holds, for every pixel the call passed to blend, the alpha       *)
(* int(ca * a) it passed.                                                  *)
(***************************************************************************)
Blended(q) == \E b \in blends : b.x = q[1] /\ b.y = q[2]

\* The alpha applied to pixel q: 0 where the rasterizer skipped it.
AlphaApplied(q) ==
    IF Blended(q) THEN (CHOOSE b \in blends : b.x = q[1] /\ b.y = q[2]).sa ELSE 0

\* The squared distance from the centre of pixel q to (cx, cy).
CentreDist2(q, cx, cy) ==
    (4 * q[1] + 2 - cx) * (4 * q[1] + 2 - cx) + (4 * q[2] + 2 - cy) * (4 * q[2] + 2 - cy)

SoftCircleDrawn == call.op = "draw_soft_circle" /\ err = "none"

\* What holds of draw_soft_circle at every distance: coverage 1.0 for
\* d <= r - feather, and coverage that does not grow with d.
SoftCircleInnerAndMonotone ==
    \A q \in Pixels :
       LET d2 == CentreDist2(q, call.cx, call.cy)
       IN  /\ CentreWithin(q[1], q[2], call.cx, call.cy, call.r - call.feather)
              => (Blended(q) /\ AlphaApplied(q) = call.color[4])
           /\ \A q2 \in Pixels :
                 d2 <= CentreDist2(q2, call.cx, call.cy)
                    => AlphaApplied(q) >= AlphaApplied(q2)

\* C6 as stated: the coverage of draw_soft_circle is 1.0 for d <= r -
\* feather, 0 for every d >= r + feather, and never grows with d.
C6_ZeroFromOuterEdge ==
    SoftCircleDrawn =>
        /\ SoftCircleInnerAndMonotone
        /\ \A q \in Pixels :
              LET d2 == CentreDist2(q, call.cx, call.cy)
                  e  == call.r + call.feather
              IN  d2 >= e * e => ~Blended(q)

\* C6: the coverage of draw_soft_circle is 1.0 for d <= r - feather, never
\* grows with d, and is 0 for every d > r + feather, and for d = r +
\* feather when feather > 0; with feather 0 the pixel at d = r has
\* coverage 1.0.
C6_ZeroBeyondOuterEdge ==
    SoftCircleDrawn =>
        /\ SoftCircleInnerAndMonotone
        /\ \A q \in Pixels :
              LET d2 == CentreDist2(q, call.cx, call.cy)
                  e  == call.r + call.feather
              IN  (d2 > e * e \/ (d2 = e * e /\ call.feather > 0)) => ~Blended(q)

\* A disc with feather 0 has been drawn and a pixel centre lies exactly on
\* its edge: that pixel got the full alpha, while another pixel further
\* out got none.
C6_EdgePixelFull ==
    /\ SoftCircleDrawn
    /\ call.feather = 0
    /\ call.r > 0
    /\ call.color[4] > 0
    /\ \E q \in Pixels :
          /\ CentreDist2(q, call.cx, call.cy) = call.r * call.r
          /\ AlphaApplied(q) = call.color[4]
    /\ \E q \in Pixels : ~Blended(q)

RingDrawn == call.op = "draw_ring" /\ err = "none"

\* The pixels whose centre is exactly r from the centre of the ring get
\* the ring colour's full alpha.
CentrelineFull ==
    \A q \in Pixels :
       CentreDist2(q, call.cx, call.cy) = call.r * call.r
          => (Blended(q) /\ AlphaApplied(q) = call.color[4])

\* C5 as stated: whenever thickness >= 2 * feather, a pixel at distance
\* exactly r from the centre of a ring is blended with the full alpha of
\* the ring's colour.
C5_CentrelineFullWhenThick ==
    (RingDrawn /\ call.thickness >= 2 * call.feather) => CentrelineFull

\* C5: whenever r passes the test of draw_ring for full coverage, inner +
\* feather <= r <= outer - feather with inner = max(0, r - thickness/2) and
\* outer = r + thickness/2 (which asks thickness >= 2 * feather and also
\* r >= feather), a pixel at distance exactly r from the centre of a ring is
\* blended with the full alpha of the ring's colour.
C5_CentrelineFullClearOfCentre ==
    ( /\ RingDrawn
      /\ Max2(0, 2 * call.r - call.thickness) + 2 * call.feather <= 2 * call.r
      /\ 2 * call.r <= 2 * call.r + call.thickness - 2 * call.feather )
    => CentrelineFull

\* A ring with thickness = 2 * feather > 0 has been drawn and a pixel
\* centre lies exactly on its centreline, where it got the full alpha.
C5_CentrelinePixelFull ==
    /\ RingDrawn
    /\ call.feather > 0
    /\ call.thickness = 2 * call.feather
    /\ 2 * call.r >= call.thickness
    /\ call.color[4] > 0
    /\ \E q \in Pixels :
          /\ CentreDist2(q, call.cx, call.cy) = call.r * call.r
          /\ AlphaApplied(q) = call.color[4]

StrokeDrawn == call.op = "draw_rounded_rect_stroke" /\ err = "none"

\* The largest s with s * s <= n.
Root(n) == CHOOSE s \in 0 .. n : s * s <= n /\ (s + 1) * (s + 1) > n

\* qx and qy of the centre of pixel q, and hypot(qx2, qy2) squared.
StrokeQx(q) == Abs((4 * q[1] + 2) - (call.x + (call.rw \div 2))) - ((call.rw \div 2) - call.radius)

StrokeQy(q) == Abs((4 * q[2] + 2) - (call.y + (call.rh \div 2))) - ((call.rh \div 2) - call.radius)

StrokeHyp2(q) ==
    Max2(StrokeQx(q), 0) * Max2(StrokeQx(q), 0) + Max2(StrokeQy(q), 0) * Max2(StrokeQy(q), 0)

\* The pixel centres whose signed distance is a whole number of quarter
\* pixels: all of them but those off a corner at an irrational distance.
Measured(q) == Root(StrokeHyp2(q)) * Root(StrokeHyp2(q)) = StrokeHyp2(q)

\* |dist| of a measured pixel centre.
StrokeAd(q) ==
    Abs(Root(StrokeHyp2(q)) + Min2(Max2(StrokeQx(q), StrokeQy(q)), 0) - call.radius)

\* int(ca * max(0, 1 - |dist| / max(1, thickness))) of a measured pixel
\* centre, 1.0 being 4 quarter pixels.
StrokeFalloffAlpha(q) ==
    LET m == IF call.thickness > 4 THEN call.thickness ELSE 4
    IN  IF StrokeAd(q) >= m THEN 0
        ELSE (call.color[4] * (m - StrokeAd(q))) \div m

\* The pixels of the box the stroke scans.
InScanBox(q) ==
    /\ 4 * q[1] + 4 > call.x - call.thickness - 8
    /\ 4 * q[1] <= call.x + call.rw + call.thickness + 8
    /\ 4 * q[2] + 4 > call.y - call.thickness - 8
    /\ 4 * q[2] <= call.y + call.rh + call.thickness + 8

\* C7 as stated: for every thickness > 0 the coverage applied to a pixel
\* of the scan box at signed distance dist is max(0, 1 - |dist| / max(1,
\* thickness)), so that a stroke thinner than one pixel still fades over a
\* full pixel.
C7_FalloffSpansFullPixel ==
    (StrokeDrawn /\ call.thickness > 0) =>
        \A q \in Pixels :
           (InScanBox(q) /\ Measured(q)) => AlphaApplied(q) = StrokeFalloffAlpha(q)

\* C7: for every thickness > 0 the coverage applied to a pixel at signed
\* distance dist is max(0, 1 - |dist| / max(1, thickness)) when |dist| <=
\* thickness, and the pixel is left alone when |dist| > thickness: a stroke
\* thinner than one pixel fades over its thickness only.
C7_FalloffWithinThickness ==
    (StrokeDrawn /\ call.thickness > 0) =>
        \A q \in Pixels :
           Measured(q) =>
              IF StrokeAd(q) <= call.thickness
              THEN Blended(q) /\ AlphaApplied(q) = StrokeFalloffAlpha(q)
              ELSE ~Blended(q)

\* A stroke half a pixel thick has been drawn; a pixel a quarter pixel
\* from its edge got three quarters of the alpha, and a pixel three
\* quarters of a pixel from it was left alone.
C7_ThinStrokeShaded ==
    /\ StrokeDrawn
    /\ call.thickness = 2
    /\ call.color[4] = 255
    /\ \E q \in Pixels : Measured(q) /\ StrokeAd(q) = 1 /\ AlphaApplied(q) = 191
    /\ \E q \in Pixels : Measured(q) /\ StrokeAd(q) = 3 /\ InScanBox(q) /\ ~Blended(q)

====
